---- MODULE Spec2Model ----
(***************************************************************************)
(* A model of fs_minizip/minizip.py: the module function write_zip (the    *)
(* Archive Writer) and the class WriteZipFS (the Writable Archive Handle). *)
(*                                                                         *)
(* Python values are records [t |-> type name, v |-> value]; a path is the *)
(* sequence of its components; a filesystem tree is a record of its        *)
(* directories and of its files with their data and modification time.     *)
(* The collaborators (fs.zipfs.ReadZipFS, fs.copy.copy_dir_if_newer,       *)
(* FS.walk, FS.getsyspath, pyminizip.compress_multiple) are modelled at    *)
(* the call sites of minizip.py by what they do to these values.  Source   *)
(* trees are backed by the operating system (TempFS, as in the tests and   *)
(* in WriteZipFS), so every entry has a system path and a modification     *)
(* time.                                                                   *)
(***************************************************************************)
EXTENDS Naturals, Sequences, FiniteSets, TLC

\* Modification times range over 1..MaxTime.
MaxTime == 2
\* At most MaxCalls invocations of the Archive Writer in one session.
MaxCalls == 2
\* At most MaxWrites makedir and writetext calls in one session.
MaxWrites == 2

\* zipfile.ZIP_STORED and zipfile.ZIP_DEFLATED
ZIP_STORED == 0
ZIP_DEFLATED == 8

VARIABLES
    src_fs,        \* the caller's source tree handed to write_zip
    disk,          \* the files of the operating system, by file name
    clock,         \* the current time
    call,          \* what the last call of write_zip did
    pc,            \* "ready" before the caller's write_zip call, "done" after
    self,          \* the WriteZipFS object
    lastOp,        \* the last method called on the WriteZipFS object
    writer_calls,  \* how often the session has invoked write_zip
    flush_calls,   \* how often WriteZipFS.write_zip was called on the open session
    writes         \* how many makedir and writetext calls the session has seen

vars == <<src_fs, disk, clock, call, pc, self, lastOp, writer_calls, flush_calls, writes>>

----------------------------------------------------------------------------
\* Python values

None == [t |-> "NoneType", v |-> ""]
Str(s) == [t |-> "str", v |-> s]
Bytes(s) == [t |-> "bytes", v |-> s]
\* an open binary file handle (BinaryIO)
FileHandle == [t |-> "BufferedWriter", v |-> "fp"]
\* the int-typed arguments keep an integer in v
IntNone == [t |-> "NoneType", v |-> 0]
Int(n) == [t |-> "int", v |-> n]

isinstance(x, ty) == x.t = ty

\* bool(x) of None, str, bytes and objects
Truthy(x) == x.t # "NoneType" /\ x.v # ""
\* bool(x) of None and int
IntTruthy(x) == x.t # "NoneType" /\ x.v # 0

----------------------------------------------------------------------------
\* Paths, trees and files on disk

FilePaths == {<<"foo">>, <<"bar">>, <<"dir", "bar">>}
DirPaths == {<<"dir">>}
\* the order in which a walk lists entries: a directory's files, then its
\* subdirectories
PathOrder == << <<"bar">>, <<"foo">>, <<"dir", "bar">> >>
DirOrder == << <<"dir">> >>
\* where the operating system keeps a TempFS
SysRoot == <<"tmp">>
Filenames == {"a.zip", "b.zip"}

dirname(p) == SubSeq(p, 1, Len(p) - 1)
basename(p) == p[Len(p)]
\* fs.path.join(prefix, name)
join(prefix, name) == prefix \o <<name>>

NoEntries == [p \in {} |-> [data |-> "", modified |-> 0]]
EntriesAt(S, datas, times) == [S -> [data : datas, modified : times]]
AllEntries(datas, times) ==
    UNION {EntriesAt(S, datas, times) : S \in SUBSET FilePaths}

ImpliedDirs(files) == {dirname(p) : p \in {q \in DOMAIN files : Len(q) > 1}}

EmptyTree == [closed |-> FALSE, dirs |-> {}, files |-> NoEntries]
\* the trees a caller can have built by time MaxTime; the caller's files
\* hold the data "new", the files of an archive found on disk "old"
Trees ==
    {[closed |-> FALSE, dirs |-> ds, files |-> fl] :
        <<ds, fl>> \in {x \in (SUBSET DirPaths) \X AllEntries({"new"}, 1..MaxTime) :
                          ImpliedDirs(x[2]) \subseteq x[1]}}

Absent == [kind |-> "absent", password |-> None, entries |-> NoEntries]
Junk == [kind |-> "junk", password |-> None, entries |-> NoEntries]
Zip(password, entries) == [kind |-> "zip", password |-> password, entries |-> entries]
Lookup(d, name) == IF name \in DOMAIN d THEN d[name] ELSE Absent

----------------------------------------------------------------------------
\* The collaborators, at their call sites in write_zip

\* zipfs._password_type_check(password): TRUE when the check passes
password_type_check(password) == isinstance(password, "bytes")

\* mutant: the password is not checked before the archive is opened
ValidateFilenameOnly(filename, password) ==
    IF ~isinstance(filename, "str") THEN "TypeError" ELSE ""

\* the argument checks of write_zip: the error they raise, "" for none
Validate(filename, password) ==
    IF ~isinstance(filename, "str") THEN "TypeError"
    ELSE IF password # None /\ ~password_type_check(password) THEN "TypeError"
    ELSE ""

\* zipfs.ReadZipFS(filename, encoding, password): the read-only view of an
\* existing archive, or the CreateFailed signal when the file is missing or
\* is no archive.  An encrypted entry can be read with the archive's
\* password only.
ReadZipFS(d, filename, encoding, password) ==
    LET f == Lookup(d, filename.v)
    IN  IF f.kind = "zip"
        THEN [signal |-> "",
              entries |-> f.entries,
              readable |-> (f.password = None \/ f.password = password)]
        ELSE [signal |-> "CreateFailed", entries |-> NoEntries, readable |-> FALSE]

\* mutant: a file is copied on equal modification times too
do_copy_on_equal(zip_entries, dst_files, p) ==
    \/ p \notin DOMAIN dst_files
    \/ zip_entries[p].modified >= dst_files[p].modified

\* mutant: every file of the archive is copied (copy_dir)
do_copy_always(zip_entries, dst_files, p) == TRUE

\* copy_dir_if_newer's decision for one file of the archive: copy it when
\* the destination tree lacks it or holds an older one
do_copy(zip_entries, dst_files, p) ==
    \/ p \notin DOMAIN dst_files
    \/ zip_entries[p].modified > dst_files[p].modified

\* the first path of S in walk order
FirstIn(S) ==
    PathOrder[CHOOSE i \in 1..Len(PathOrder) :
                /\ PathOrder[i] \in S
                /\ \A j \in 1..(i - 1) : PathOrder[j] \notin S]

\* mutant: nothing of the existing archive is merged
copy_nothing(zip_, dst_fs, now) ==
    [fs |-> dst_fs,
     raised |-> IF dst_fs.closed THEN "FilesystemClosed" ELSE "",
     copied |-> {}]

\* copy_dir_if_newer(zip_, "/", src_fs, "/"): the directories of the archive
\* are made in the destination tree and every file that do_copy selects is
\* copied, stamped with the time of the copy.  Reading an entry of an
\* archive that the password does not open raises; the file being written
\* was opened for writing first.
copy_dir_if_newer(zip_, dst_fs, now) ==
    LET to_copy == {p \in DOMAIN zip_.entries : do_copy(zip_.entries, dst_fs.files, p)}
        dirs == dst_fs.dirs \cup ImpliedDirs(zip_.entries)
        first == FirstIn(to_copy)
    IN  IF dst_fs.closed
        THEN [fs |-> dst_fs, raised |-> "FilesystemClosed", copied |-> {}]
        ELSE IF to_copy = {}
        THEN [fs |-> [dst_fs EXCEPT !.dirs = dirs], raised |-> "", copied |-> {}]
        ELSE IF zip_.readable
        THEN [fs |-> [closed |-> FALSE,
                      dirs |-> dirs,
                      files |-> [p \in DOMAIN dst_fs.files \cup to_copy |->
                                   IF p \in to_copy
                                   THEN [data |-> zip_.entries[p].data, modified |-> now]
                                   ELSE dst_fs.files[p]]],
              raised |-> "",
              copied |-> to_copy]
        ELSE [fs |-> [closed |-> FALSE,
                      dirs |-> dirs,
                      files |-> [p \in DOMAIN dst_fs.files \cup {first} |->
                                   IF p = first
                                   THEN [data |-> "", modified |-> now]
                                   ELSE dst_fs.files[p]]],
              raised |-> "RuntimeError",
              copied |-> {}]

\* the files of directory d, as the walk lists them
FilesIn(fs, d) ==
    LET Here(p) == p \in DOMAIN fs.files /\ dirname(p) = d
        names == SelectSeq(PathOrder, Here)
    IN  [i \in 1..Len(names) |-> basename(names[i])]

\* mutant: the walk does not descend into directories
walk_top_only(fs) == << [prefix |-> <<>>, files |-> FilesIn(fs, <<>>)] >>

\* src_fs.walk(): one step (prefix, files) for the root and for every
\* directory below it
walk(fs) ==
    LET Exists(d) == d \in fs.dirs
        ds == SelectSeq(DirOrder, Exists)
    IN  << [prefix |-> <<>>, files |-> FilesIn(fs, <<>>)] >>
        \o [i \in 1..Len(ds) |-> [prefix |-> ds[i], files |-> FilesIn(fs, ds[i])]]

\* src_fs.getsyspath(path)
getsyspath(fs, path) == SysRoot \o path

\* the file the operating system keeps at syspath
ReadSys(fs, syspath) == fs.files[SubSeq(syspath, Len(SysRoot) + 1, Len(syspath))]

\* the inner loop of "collect files": one append to each list per file.  The
\* prefix a walk yields is never empty as a string ("/" for the root), so
\* "prefix if prefix else ''" keeps it; as a sequence of components the
\* root's prefix is <<>>.
RECURSIVE collect_dir(_, _, _, _)
collect_dir(fs, prefix, files, acc) ==
    IF files = <<>> THEN acc
    ELSE LET dst_name == join(prefix, Head(files))
         IN  collect_dir(fs, prefix, Tail(files),
                 [src_files |-> Append(acc.src_files, getsyspath(fs, dst_name)),
                  dest_prefixes |-> Append(acc.dest_prefixes, prefix)])

\* the outer loop of "collect files"
RECURSIVE collect_files(_, _, _)
collect_files(fs, steps, acc) ==
    IF steps = <<>> THEN acc
    ELSE collect_files(fs, Tail(steps),
             collect_dir(fs, Head(steps).prefix, Head(steps).files, acc))

\* pyminizip.compress_multiple(src_files, dest_prefixes, filename, password,
\* compression): writes the archive anew, each file under its prefix and its
\* own name, with the data and the time of the file; io_ok is whether the
\* operating system lets it write.
compress_multiple(src_files, dest_prefixes, filename, password, compression, fs, d, io_ok) ==
    LET idx == 1..Len(src_files)
        NameOf(i) == join(dest_prefixes[i], basename(src_files[i]))
        entries == [n \in {NameOf(i) : i \in idx} |->
                      ReadSys(fs, src_files[CHOOSE i \in idx : NameOf(i) = n])]
    IN  IF io_ok
        THEN [disk |-> [d EXCEPT ![filename.v] = Zip(password, entries)], raised |-> ""]
        ELSE [disk |-> d, raised |-> "OSError"]

----------------------------------------------------------------------------
\* write_zip, the Archive Writer

\* mutant: every exception of the merge is swallowed
except_Exception(exc) == TRUE

\* "except CreateFailed: pass": the exceptions the handler catches
except_CreateFailed(exc) == exc = "CreateFailed"

\* mutant: the compression primitive is called for an empty manifest too
if_always(src_files) == TRUE

\* "if src_files:"
if_src_files(src_files) == Len(src_files) > 0

NoManifest == [src_files |-> <<>>, dest_prefixes |-> <<>>]

\* what a call of write_zip did: the arguments and the state it started from
\* (src0, disk0), the error that reached the caller (raised, "" for none),
\* whether ReadZipFS was called (opened) and what it signalled, the error of
\* the merge, the files the merge copied, the two lists, the calls of the
\* compression primitive, and the state it left (src1, disk1)
Outcome(args, src0, disk0, raised, opened, signal, merge_error, copied, manifest, compress_calls, src1, disk1) ==
    [made |-> TRUE, args |-> args, src0 |-> src0, disk0 |-> disk0,
     raised |-> raised, opened |-> opened, signal |-> signal,
     merge_error |-> merge_error, copied |-> copied,
     src_files |-> manifest.src_files, dest_prefixes |-> manifest.dest_prefixes,
     compress_calls |-> compress_calls, src1 |-> src1, disk1 |-> disk1]

NoArgs == [filename |-> None, compression |-> IntNone, encoding |-> None, password |-> None]

NoCall ==
    [made |-> FALSE, args |-> NoArgs, src0 |-> EmptyTree, disk0 |-> [n \in Filenames |-> Absent],
     raised |-> "", opened |-> FALSE, signal |-> "", merge_error |-> "", copied |-> {},
     src_files |-> <<>>, dest_prefixes |-> <<>>, compress_calls |-> <<>>,
     src1 |-> EmptyTree, disk1 |-> [n \in Filenames |-> Absent]]

\* write_zip(src_fs, filename, compression, encoding, password) on the files
\* d of the operating system at time now
write_zip(fs, d, filename, compression, encoding, password, now, io_ok) ==
    LET args == [filename |-> filename, compression |-> compression,
                 encoding |-> encoding, password |-> password]
        invalid == Validate(filename, password)
        \* extract existed file
        zip_ == ReadZipFS(d, filename, encoding, password)
        merge == IF zip_.signal = ""
                 THEN copy_dir_if_newer(zip_, fs, now)
                 ELSE [fs |-> fs, raised |-> "", copied |-> {}]
        exc == IF zip_.signal # "" THEN zip_.signal ELSE merge.raised
        escaped == IF exc # "" /\ ~except_CreateFailed(exc) THEN exc ELSE ""
        merged == merge.fs
        \* collect files
        manifest == collect_files(merged, walk(merged), NoManifest)
        \* make zip
        made == compress_multiple(manifest.src_files, manifest.dest_prefixes,
                                  filename, password, compression, merged, d, io_ok)
        this_call == [src_files |-> manifest.src_files,
                      dest_prefixes |-> manifest.dest_prefixes,
                      filename |-> filename, password |-> password,
                      compression |-> compression]
    IN  IF invalid # ""
        THEN Outcome(args, fs, d, invalid, FALSE, "", "", {}, NoManifest, <<>>, fs, d)
        ELSE IF escaped # ""
        THEN Outcome(args, fs, d, escaped, TRUE, zip_.signal, merge.raised, merge.copied,
                     NoManifest, <<>>, merged, d)
        ELSE IF merged.closed
        THEN Outcome(args, fs, d, "FilesystemClosed", TRUE, zip_.signal, merge.raised,
                     merge.copied, NoManifest, <<>>, merged, d)
        ELSE IF if_src_files(manifest.src_files)
        THEN Outcome(args, fs, d, made.raised, TRUE, zip_.signal, merge.raised,
                     merge.copied, manifest, <<this_call>>, merged, made.disk)
        ELSE Outcome(args, fs, d, "", TRUE, zip_.signal, merge.raised, merge.copied,
                     manifest, <<>>, merged, d)

----------------------------------------------------------------------------
\* The caller of write_zip: one call on a source tree and a destination,
\* with a destination that is a file name or an open file, a password that
\* is absent, a byte string or a str, and an operating system that lets the
\* archive be written or not

DestFile == "a.zip"
Passwords == {None, Bytes("1234")}
DestStates ==
    {Absent, Junk}
    \cup {Zip(pw, e) : <<pw, e>> \in Passwords \X AllEntries({"old"}, 1..MaxTime)}

\* no WriteZipFS object takes part in a direct call of write_zip
NoSelf ==
    [_file |-> None, compression |-> IntNone, encoding |-> None, _password |-> None,
     _temp_fs |-> EmptyTree, _closed |-> FALSE]
\* self.write_zip(): every argument omitted
Omitted == [file |-> None, compression |-> IntNone, encoding |-> None, password |-> None]
\* a method call on the WriteZipFS object: its name, its arguments, whether
\* the handle was closed when it was made, and the error it raised
Op(op, a, was_closed, raised) ==
    [op |-> op, args |-> a, was_closed |-> was_closed, raised |-> raised]
NoOp == Op("", Omitted, FALSE, "")

InitWriter ==
    /\ src_fs \in Trees
    /\ disk \in {[n \in Filenames |-> IF n = DestFile THEN f ELSE Absent] : f \in DestStates}
    /\ clock = MaxTime
    /\ call = NoCall
    /\ pc = "ready"
    /\ self = NoSelf
    /\ lastOp = NoOp
    /\ writer_calls = 0
    /\ flush_calls = 0
    /\ writes = 0

CallWriteZip ==
    /\ pc = "ready"
    /\ \E filename \in {Str(DestFile), FileHandle},
          compression \in {Int(ZIP_STORED), Int(ZIP_DEFLATED)},
          password \in Passwords \cup {Str("bar")},
          io_ok \in BOOLEAN :
          LET r == write_zip(src_fs, disk, filename, compression, Str("utf-8"),
                             password, clock, io_ok)
          IN  /\ call' = r
              /\ src_fs' = r.src1
              /\ disk' = r.disk1
    /\ pc' = "done"
    /\ UNCHANGED <<clock, self, lastOp, writer_calls, flush_calls, writes>>

NextWriter == CallWriteZip

SpecWriter == InitWriter /\ [][NextWriter]_vars

----------------------------------------------------------------------------
\* Properties of write_zip, checked under SpecWriter

\* the destination file before and after the last call
Dest0 == Lookup(call.disk0, call.args.filename.v)
Dest1 == Lookup(call.disk1, call.args.filename.v)
\* the call passed the argument checks
Validated == call.made /\ call.opened
\* the destination named an archive that the supplied password opens
ReadableArchive ==
    /\ Validated
    /\ Dest0.kind = "zip"
    /\ (Dest0.password = None \/ Dest0.password = call.args.password)
\* the source tree's file at p is older than the archive's
Older(p) == call.src0.files[p].modified < Dest0.entries[p].modified
\* the archive's file at p is missing from the source tree or older there
MissingOrOlder(p) == p \notin DOMAIN call.src0.files \/ Older(p)
\* the archive holds file p with the data of entry e
Archived(p, e) ==
    /\ Dest1.kind = "zip"
    /\ p \in DOMAIN Dest1.entries
    /\ Dest1.entries[p].data = e.data

\* C1 as stated: after a successful write_zip onto a readable archive the
\* final archive holds every file of the old archive that the source tree
\* lacks, unchanged, and every file of the source tree with the source
\* tree's content.
C1_MergeAsStated ==
    (ReadableArchive /\ call.raised = "") =>
        /\ \A p \in DOMAIN Dest0.entries \ DOMAIN call.src0.files :
              Archived(p, Dest0.entries[p])
        /\ \A p \in DOMAIN call.src0.files : Archived(p, call.src0.files[p])

\* C1 amended: after a successful write_zip onto a readable archive the final
\* archive holds every file of the old archive that the source tree lacks,
\* unchanged, and every file of the source tree with the source tree's
\* content unless the old archive holds a newer version of it, which is then
\* the one archived.
C1_Merge ==
    (ReadableArchive /\ call.raised = "") =>
        /\ \A p \in DOMAIN Dest0.entries \ DOMAIN call.src0.files :
              Archived(p, Dest0.entries[p])
        /\ \A p \in DOMAIN call.src0.files :
              IF p \in DOMAIN Dest0.entries /\ Older(p)
              THEN Archived(p, Dest0.entries[p])
              ELSE Archived(p, call.src0.files[p])

\* the case of test_append_files: the archive holds a file the source tree
\* lacks, the source tree a file the archive lacks
C1_Witness ==
    /\ ReadableArchive
    /\ call.raised = ""
    /\ DOMAIN Dest0.entries \ DOMAIN call.src0.files # {}
    /\ DOMAIN call.src0.files \ DOMAIN Dest0.entries # {}
    /\ Dest0.password = Bytes("1234")

\* C2: a destination that is not a str, or a password that is neither None
\* nor bytes, makes write_zip raise TypeError before any I/O: ReadZipFS is
\* not called, the source tree and the files on disk are as before and the
\* compression primitive is not called.
C2_ValidationFirst ==
    (call.made /\ (call.args.filename.t # "str"
                   \/ call.args.password.t \notin {"NoneType", "bytes"})) =>
        /\ call.raised = "TypeError"
        /\ ~call.opened
        /\ call.src1 = call.src0
        /\ call.compress_calls = <<>>
        /\ call.disk1 = call.disk0

\* the case of test_password_type, on a destination that holds an archive
\* and a source tree that holds files
C2_Witness ==
    /\ call.made
    /\ call.args.filename = Str(DestFile)
    /\ call.args.password = Str("bar")
    /\ call.raised = "TypeError"
    /\ call.disk0[DestFile].kind = "zip"
    /\ DOMAIN call.disk0[DestFile].entries # {}
    /\ DOMAIN call.src0.files # {}

\* C3 as stated: a call whose source tree holds no file never calls the
\* compression primitive and leaves the destination untouched, whatever the
\* destination holds.
C3_EmptyAsStated ==
    (call.made /\ DOMAIN call.src0.files = {}) =>
        /\ call.compress_calls = <<>>
        /\ call.disk1 = call.disk0

\* C3 amended: a call whose source tree holds no file, on a destination that
\* holds nothing, a file that is no archive, or an archive without files,
\* never calls the compression primitive and leaves the destination
\* untouched.
C3_Empty ==
    (call.made /\ DOMAIN call.src0.files = {} /\ DOMAIN Dest0.entries = {}) =>
        /\ call.compress_calls = <<>>
        /\ call.disk1 = call.disk0

\* an empty source tree written onto an archive without files
C3_Witness ==
    /\ Validated
    /\ DOMAIN call.src0.files = {}
    /\ Dest0.kind = "zip"
    /\ DOMAIN Dest0.entries = {}
    /\ call.raised = ""

\* C7 as stated: the source tree is the same after every call of write_zip
\* as before it.
C7_ReadOnlyAsStated == call.made => call.src1 = call.src0

\* C7 amended: write_zip leaves the source tree as it was when the argument
\* checks fail or the destination is no archive; when the destination is an
\* archive it writes into the source tree, but only the archive's
\* directories and the archive's files that are missing from the source tree
\* or older there: every other file keeps its content and modification time.
C7_Frame ==
    call.made =>
        /\ (~call.opened \/ call.signal = "CreateFailed") => call.src1 = call.src0
        /\ \A p \in DOMAIN call.src0.files :
              (p \notin DOMAIN Dest0.entries \/ ~Older(p)) =>
                  /\ p \in DOMAIN call.src1.files
                  /\ call.src1.files[p] = call.src0.files[p]
        /\ DOMAIN call.src1.files \subseteq DOMAIN call.src0.files \cup DOMAIN Dest0.entries
        /\ call.src0.dirs \subseteq call.src1.dirs
        /\ call.src1.dirs \subseteq call.src0.dirs \cup ImpliedDirs(Dest0.entries)
        /\ call.src1.closed = call.src0.closed

\* a merge that copied a file and left a file of both trees alone
C7_Witness ==
    /\ ReadableArchive
    /\ call.copied # {}
    /\ call.src1 # call.src0
    /\ \E p \in DOMAIN call.src0.files \cap DOMAIN Dest0.entries :
          call.src1.files[p] = call.src0.files[p]

\* C8: when the destination names a readable archive, a file of the archive
\* is copied into the source tree if and only if the source tree lacks it or
\* holds an older version; so of a path that both define the newer version is
\* the one archived, and the source tree's on equal modification times.
C8_Reconciliation ==
    ReadableArchive =>
        /\ call.copied = {p \in DOMAIN Dest0.entries : MissingOrOlder(p)}
        /\ \A p \in DOMAIN Dest0.entries :
              /\ p \in DOMAIN call.src1.files
              /\ MissingOrOlder(p) <=> call.src1.files[p].data = Dest0.entries[p].data
              /\ ~MissingOrOlder(p) => call.src1.files[p] = call.src0.files[p]
        /\ call.raised = "" =>
              \A p \in DOMAIN Dest0.entries \cap DOMAIN call.src0.files :
                  Archived(p, IF Older(p) THEN Dest0.entries[p] ELSE call.src0.files[p])

\* both trees define three paths: one newer in the archive, one newer in the
\* source tree, one with equal modification times
C8_Witness ==
    /\ ReadableArchive
    /\ call.raised = ""
    /\ \E p, q, r \in DOMAIN Dest0.entries \cap DOMAIN call.src0.files :
          /\ Older(p)
          /\ call.src0.files[q].modified > Dest0.entries[q].modified
          /\ call.src0.files[r].modified = Dest0.entries[r].modified

\* the files of the tree fs, as the pairs of the manifest
ManifestOf(fs) == {<<getsyspath(fs, p), dirname(p)>> : p \in DOMAIN fs.files}
\* the pairs of the two lists of the last call
Manifest == {<<call.src_files[i], call.dest_prefixes[i]>> : i \in 1..Len(call.src_files)}
\* the one call of the compression primitive that write_zip is to make
TheCall ==
    [src_files |-> call.src_files, dest_prefixes |-> call.dest_prefixes,
     filename |-> call.args.filename, password |-> call.args.password,
     compression |-> call.args.compression]

\* C9: CreateFailed is the only error write_zip swallows.  When opening the
\* destination signals it, nothing is merged, the unmerged source tree is
\* enumerated and compressed and the signal does not reach the caller; an
\* error of the merge or of the compression primitive reaches the caller
\* unchanged, and after an error of the merge the compression primitive is
\* not called.
C9_OnlyCreateFailedSwallowed ==
    Validated =>
        /\ call.signal = "CreateFailed" =>
              /\ call.copied = {}
              /\ call.merge_error = ""
              /\ call.src1 = call.src0
              /\ Manifest = ManifestOf(call.src0)
              /\ call.compress_calls = IF DOMAIN call.src0.files = {} THEN <<>> ELSE <<TheCall>>
              /\ call.raised \in {"", "OSError"}
              /\ call.raised = "OSError" => call.compress_calls # <<>>
        /\ call.merge_error # "" =>
              /\ call.raised = call.merge_error
              /\ call.compress_calls = <<>>
              /\ call.disk1 = call.disk0
        /\ call.raised # "CreateFailed"
        /\ (call.raised # "" /\ call.merge_error = "") =>
              /\ call.raised = "OSError"
              /\ call.compress_calls = <<TheCall>>

\* a destination that is no archive: the signal is swallowed and the source
\* tree is compressed
C9_Witness ==
    /\ Validated
    /\ Dest0.kind = "junk"
    /\ call.signal = "CreateFailed"
    /\ call.raised = ""
    /\ call.compress_calls # <<>>
    /\ Dest1.kind = "zip"

\* C10: on a call that passes the argument checks and the merge, the two
\* lists have equal length and hold exactly one (system path, directory
\* prefix) pair for each file of the reconciled source tree, at any depth;
\* the compression primitive is called exactly once, with both lists, the
\* destination, the password and the compression mode, when the lists are
\* not empty, and not at all when they are; and when it succeeds each file is
\* in the archive at its path with its content.
C10_Manifest ==
    (Validated /\ call.merge_error = "" /\ ~call.src1.closed) =>
        /\ Len(call.src_files) = Len(call.dest_prefixes)
        /\ Len(call.src_files) = Cardinality(DOMAIN call.src1.files)
        /\ Manifest = ManifestOf(call.src1)
        /\ call.compress_calls = IF DOMAIN call.src1.files = {} THEN <<>> ELSE <<TheCall>>
        /\ (call.raised = "" /\ call.compress_calls # <<>>) =>
              /\ Dest1.kind = "zip"
              /\ Dest1.password = call.args.password
              /\ DOMAIN Dest1.entries = DOMAIN call.src1.files
              /\ \A p \in DOMAIN call.src1.files : Archived(p, call.src1.files[p])

\* the case of test_create_without_pass: a file in a directory and a file at
\* the top, written without a password to a fresh destination
C10_Witness ==
    /\ Validated
    /\ Dest0.kind = "absent"
    /\ call.args.password = None
    /\ call.raised = ""
    /\ DOMAIN call.src0.files = {<<"dir", "bar">>, <<"bar">>}
    /\ Archived(<<"dir", "bar">>, call.src0.files[<<"dir", "bar">>])
    /\ Archived(<<"bar">>, call.src0.files[<<"bar">>])
    /\ Len(call.src_files) = 2

----------------------------------------------------------------------------
\* WriteZipFS, the Writable Archive Handle

\* Python's "a or b"
Or(a, b) == IF Truthy(a) THEN a ELSE b
IntOr(a, b) == IF IntTruthy(a) THEN a ELSE b

\* mutant: the handle never reports itself closed
isclosed_never(s) == FALSE

\* self.isclosed()
isclosed(s) == s._closed

\* WriteZipFS.write_zip(file, compression, encoding, password): the Outcome
\* of the call of write_zip it makes, NoCall when it makes none
WriteZipFS_write_zip(s, d, a, now, io_ok) ==
    IF ~isclosed(s)
    THEN write_zip(s._temp_fs, d,
                   Or(a.file, s._file),
                   IntOr(a.compression, s.compression),
                   Or(a.encoding, s.encoding),
                   Or(a.password, s._password),
                   now, io_ok)
    ELSE NoCall

\* TempFS.close(): the temporary directory is removed
TempFS_close(fs) == [closed |-> TRUE, dirs |-> {}, files |-> NoEntries]

\* mutant: close does not write the archive
close_without_write_zip(s, d, now, io_ok) ==
    [self |-> [s EXCEPT !._temp_fs = TempFS_close(s._temp_fs), !._closed = TRUE],
     call |-> NoCall, raised |-> ""]

\* WriteZipFS.close(), inherited: an open handle calls self.write_zip() and,
\* whether or not that raises, closes the temporary tree; the handle is
\* marked closed only when nothing was raised
WriteZipFS_close(s, d, now, io_ok) ==
    LET r == WriteZipFS_write_zip(s, d, Omitted, now, io_ok)
    IN  IF isclosed(s)
        THEN [self |-> s, call |-> NoCall, raised |-> ""]
        ELSE [self |-> [s EXCEPT !._temp_fs = TempFS_close(r.src1),
                                 !._closed = (r.raised = "")],
              call |-> r, raised |-> r.raised]

\* the per-call arguments tried: all omitted, or one of them supplied
FlushArgs ==
    {Omitted}
    \cup {[Omitted EXCEPT !.file = f] : f \in {Str("b.zip"), FileHandle}}
    \cup {[Omitted EXCEPT !.compression = c] : c \in {Int(ZIP_STORED)}}
    \cup {[Omitted EXCEPT !.encoding = e] : e \in {Str("CP437")}}
    \cup {[Omitted EXCEPT !.password = pw] : pw \in {Bytes(""), Bytes("1234"), Str("bar")}}

\* WriteZipFS("a.zip", password=password), with the defaults of __init__, on
\* a disk that holds nothing at "a.zip", or an archive written with password
\* 1234
InitSession ==
    /\ \E password \in Passwords :
          self = [_file |-> Str(DestFile), compression |-> Int(ZIP_DEFLATED),
                  encoding |-> Str("utf-8"), _password |-> password,
                  _temp_fs |-> EmptyTree, _closed |-> FALSE]
    /\ \E f \in {Absent, Zip(Bytes("1234"), [p \in {<<"foo">>} |-> [data |-> "old", modified |-> 1]])} :
          disk = [n \in Filenames |-> IF n = DestFile THEN f ELSE Absent]
    /\ clock = 1
    /\ call = NoCall
    /\ pc = "session"
    /\ src_fs = EmptyTree
    /\ lastOp = NoOp
    /\ writer_calls = 0
    /\ flush_calls = 0
    /\ writes = 0

\* whether the operating system lets the archive be written; nothing is
\* written by a closed handle
IoOutcomes == IF self._closed THEN {TRUE} ELSE BOOLEAN

Usable == ~self._closed /\ ~self._temp_fs.closed /\ writes < MaxWrites

\* makedir(path), forwarded to the temporary tree; time passes between the
\* calls of a session
makedir(d) ==
    /\ Usable
    /\ d \notin self._temp_fs.dirs
    /\ self' = [self EXCEPT !._temp_fs.dirs = @ \cup {d}]
    /\ writes' = writes + 1
    /\ clock' = clock + 1
    /\ UNCHANGED <<src_fs, disk, call, pc, lastOp, writer_calls, flush_calls>>

\* writetext(path, ...), forwarded to the temporary tree
writetext(p) ==
    /\ Usable
    /\ dirname(p) = <<>> \/ dirname(p) \in self._temp_fs.dirs
    /\ self' = [self EXCEPT !._temp_fs.files =
                   [q \in DOMAIN @ \cup {p} |->
                      IF q = p THEN [data |-> "new", modified |-> clock] ELSE @[q]]]
    /\ writes' = writes + 1
    /\ clock' = clock + 1
    /\ UNCHANGED <<src_fs, disk, call, pc, lastOp, writer_calls, flush_calls>>

\* an explicit WriteZipFS.write_zip(...) call
Flush(a) ==
    /\ self._closed \/ writer_calls < MaxCalls
    /\ \E io_ok \in IoOutcomes :
       LET r == WriteZipFS_write_zip(self, disk, a, clock, io_ok)
       IN  IF r.made
           THEN /\ call' = r
                /\ disk' = r.disk1
                /\ self' = [self EXCEPT !._temp_fs = r.src1]
                /\ writer_calls' = writer_calls + 1
                /\ flush_calls' = flush_calls + 1
                /\ lastOp' = Op("write_zip", a, self._closed, r.raised)
           ELSE /\ lastOp' = Op("write_zip", a, self._closed, "")
                /\ UNCHANGED <<call, disk, self, writer_calls, flush_calls>>
    /\ UNCHANGED <<src_fs, clock, pc, writes>>

\* close(), also the end of a with block
Close ==
    /\ self._closed \/ writer_calls < MaxCalls
    /\ \E io_ok \in IoOutcomes :
       LET r == WriteZipFS_close(self, disk, clock, io_ok)
       IN  /\ self' = r.self
           /\ lastOp' = Op("close", Omitted, self._closed, r.raised)
           /\ IF r.call.made
              THEN /\ call' = r.call
                   /\ disk' = r.call.disk1
                   /\ writer_calls' = writer_calls + 1
              ELSE UNCHANGED <<call, disk, writer_calls>>
    /\ UNCHANGED <<src_fs, clock, pc, flush_calls, writes>>

Next ==
    \/ \E d \in DirPaths : makedir(d)
    \/ \E p \in FilePaths : writetext(p)
    \/ \E a \in FlushArgs : Flush(a)
    \/ Close

Spec == InitSession /\ [][Next]_vars

----------------------------------------------------------------------------
\* Properties of WriteZipFS, checked under Spec

\* the last method called was write_zip, on the open handle, with arguments a
FlushedOpen == lastOp.op = "write_zip" /\ ~lastOp.was_closed

\* C4: on a handle that is not closed, WriteZipFS.write_zip hands write_zip
\* the per-call destination, compression mode, encoding and password
\* whenever one is supplied, whatever its value, and the value given at
\* construction only when it is omitted.
C4_OverridesAsStated ==
    FlushedOpen =>
        /\ call.args.filename =
              IF lastOp.args.file # None THEN lastOp.args.file ELSE self._file
        /\ call.args.compression =
              IF lastOp.args.compression # IntNone THEN lastOp.args.compression
              ELSE self.compression
        /\ call.args.encoding =
              IF lastOp.args.encoding # None THEN lastOp.args.encoding ELSE self.encoding
        /\ call.args.password =
              IF lastOp.args.password # None THEN lastOp.args.password ELSE self._password

\* C5 as stated: once the session is closed, write_zip has been invoked
\* exactly once in all.
C5_OnceAsStated == self._closed => writer_calls = 1

\* C5 amended: once the session is closed, write_zip has been invoked once
\* by the close and once by each WriteZipFS.write_zip call made on the open
\* handle before it; exactly once in all only when there was no such call.
C5_OncePerFlushAndClose == self._closed => writer_calls = flush_calls + 1

\* a session that was flushed by an explicit call and then closed
C5_Witness ==
    /\ self._closed
    /\ flush_calls = 1
    /\ writer_calls = 2
    /\ lastOp.op = "close"

\* C6: on a closed handle WriteZipFS.write_zip, whatever its arguments,
\* raises nothing, invokes neither write_zip nor the compression primitive
\* and leaves the files on disk and the temporary tree as they were.
C6_FlushAfterCloseNoop ==
    [][(self._closed /\ lastOp'.op = "write_zip") =>
          /\ lastOp'.was_closed
          /\ lastOp'.raised = ""
          /\ writer_calls' = writer_calls
          /\ flush_calls' = flush_calls
          /\ call' = call
          /\ disk' = disk
          /\ self' = self]_vars

\* a closed session whose archive was written, then asked to write again with
\* a password that is no byte string
C6_Witness ==
    /\ self._closed
    /\ lastOp.op = "write_zip"
    /\ lastOp.was_closed
    /\ lastOp.args.password = Str("bar")
    /\ lastOp.raised = ""
    /\ call.compress_calls # <<>>
    /\ disk[DestFile].kind = "zip"

====
